---- MODULE Spec2Model ----
(***************************************************************************)
(* One step of the Loop subdivision (loop.cpp): loopSubdivision and        *)
(* getNewVertex.  Vertex indices are 0-based as in the code; the sequences *)
(* of the model are 1-based, so vertex idx is element idx + 1.             *)
(*                                                                         *)
(* A point3d is modelled by ONE coordinate: every point operation of the   *)
(* pass (sum, scaling) acts on the three coordinates independently and     *)
(* alike.  A coordinate is an exact rational <<num, den>> (den > 0, lowest *)
(* terms): float rounding is not modelled.                                 *)
(***************************************************************************)
EXTENDS Integers, Sequences, FiniteSets

VARIABLES origVert, origMesh, destVert, destMesh, destNorm,
          newVertices, occurrences, tmp, pc, k, mids

vars == <<origVert, origMesh, destVert, destMesh, destNorm,
          newVertices, occurrences, tmp, pc, k, mids>>

(* ------------------------------ bounds --------------------------------- *)
\* the largest number of faces of an input mesh
MaxFaces == 2
\* the largest number of vertices of an input mesh
MaxVert == 4
\* the number of coordinate layouts the input positions are drawn from
NumLayouts == 2
\* the largest numbers of faces and of vertices of a malformed input mesh
MaxBadFaces == 2
MaxBadVert == 3

(* ------------------------ rationals (point3d) -------------------------- *)
Abs(x) == IF x < 0 THEN -x ELSE x

RECURSIVE GCD(_, _)
GCD(x, y) == IF y = 0 THEN x ELSE GCD(y, x % y)

\* the rational n/d in lowest terms with a positive denominator
Rat(n, d) ==
    LET s == IF d < 0 THEN -1 ELSE 1
        g == GCD(Abs(n), Abs(d))
    IN  <<(s * n) \div g, (s * d) \div g>>

Zero == <<0, 1>>

\* point3d operator+
PAdd(p, q) == Rat(p[1] * q[2] + q[1] * p[2], p[2] * q[2])

\* point3d scaled by the float n/d
PScale(n, d, p) == Rat(n * p[1], d * p[2])

(* ----------------------------- the inputs ------------------------------ *)
RECURSIVE Pow(_, _)
Pow(b, e) == IF e = 0 THEN 1 ELSE b * Pow(b, e - 1)

\* the coordinate of input vertex idx in layout L: L = 1 gives 1, 3, 9, 27,
\* L = 2 gives -1, -4, -16, -64, ...
Coord(L, idx) == IF L % 2 = 1 THEN Pow(L + 2, idx) ELSE -Pow(L + 2, idx)

Verts(L, n) == [i \in 1..n |-> <<Coord(L, i - 1), 1>>]

\* the triangles over the indices of S with three distinct indices
Triangles(S) ==
    {f \in S \X S \X S : f[1] # f[2] /\ f[2] # f[3] /\ f[1] # f[3]}

\* the number of different vertex indices the faces of mesh hold
Used(mesh) ==
    Cardinality({mesh[j][n] : j \in 1..Len(mesh), n \in 1..3})

\* face f names its vertices in order of first mention after faces that hold
\* the indices 0..(used - 1): an index new to the mesh is the next free one
InOrder(f, used) ==
    LET u1 == IF f[1] = used THEN used + 1 ELSE used
        u2 == IF f[2] = u1 THEN u1 + 1 ELSE u1
    IN  f[1] <= used /\ f[2] <= u1 /\ f[3] <= u2

\* the meshes of at most n faces over S whose vertices are numbered in order
\* of first mention (every mesh is one of these up to the names of its
\* vertices)
RECURSIVE Meshes(_, _)
Meshes(S, n) ==
    IF n = 0 THEN {<<>>}
    ELSE LET shorter == Meshes(S, n - 1)
         IN  shorter \cup
             UNION {{Append(m, f) : f \in {g \in Triangles(S) : InOrder(g, Used(m))}} :
                    m \in {t \in shorter : Len(t) = n - 1}}

\* the sequences over S of length at most n
RECURSIVE SeqsUpTo(_, _)
SeqsUpTo(S, n) ==
    IF n = 0 THEN {<<>>}
    ELSE LET shorter == SeqsUpTo(S, n - 1)
         IN  shorter \cup {Append(s, x) : s \in {t \in shorter : Len(t) = n - 1}, x \in S}

\* what a caller's output vectors hold before the call: an earlier result
StaleVert == <<Zero>>
StaleMesh == <<<<0, 0, 0>>>>
StaleNorm == <<0>>

(* --------------------------- face and edge ----------------------------- *)
\* face::containsEdge: the face holds both ends of the edge
ContainsEdge(f, e) ==
    /\ e[1] \in {f[1], f[2], f[3]}
    /\ e[2] \in {f[1], f[2], f[3]}

\* face::getOppositeVertex: the vertex of the face that is no end of the edge
OppositeVertex(f, e) ==
    IF f[1] # e[1] /\ f[1] # e[2] THEN f[1]
    ELSE IF f[2] # e[1] /\ f[2] # e[2] THEN f[2]
    ELSE f[3]

\* the positions in mesh of the faces incident to e, in mesh order
Incident(e, mesh) == {j \in 1..Len(mesh) : ContainsEdge(mesh[j], e)}

\* isBoundaryEdge(e, mesh, oppV1, oppV2): the possible answers.  One face
\* on the edge: a boundary edge.  Two: not a boundary edge, with the vertices
\* opposite the edge in the two faces, in mesh order.  With more than two
\* faces on the edge the answer is not specified: any of the above, for any
\* two of the faces.
IsBoundaryEdge(e, mesh) ==
    LET on       == Incident(e, mesh)
        boundary == [boundary |-> TRUE, oppV1 |-> 0, oppV2 |-> 0]
        pairs    == IF Cardinality(on) = 2
                    THEN {p \in on \X on : p[1] < p[2]}
                    ELSE {p \in on \X on : p[1] # p[2]}
    IN  (IF Cardinality(on) # 2 THEN {boundary} ELSE {})
        \cup {[boundary |-> FALSE,
               oppV1 |-> OppositeVertex(mesh[p[1]], e),
               oppV2 |-> OppositeVertex(mesh[p[2]], e)] : p \in pairs}

(* ----------------------------- EdgeList -------------------------------- *)
\* An EdgeList is the sequence of its entries [e |-> edge, idx |-> index] in
\* insertion order.  Two edges are the same if they join the same two ends.
SameEdge(e1, e2) ==
    \/ e1[1] = e2[1] /\ e1[2] = e2[2]
    \/ e1[1] = e2[2] /\ e1[2] = e2[1]

\* EdgeList::contains
Contains(list, e) == \E j \in 1..Len(list) : SameEdge(list[j].e, e)

\* EdgeList::getIndex
GetIndex(list, e) ==
    list[CHOOSE j \in 1..Len(list) : SameEdge(list[j].e, e)].idx

\* EdgeList::add
Add(list, e, idx) == Append(list, [e |-> e, idx |-> idx])

(* ----------------------- undefined behaviour --------------------------- *)
\* A vector is read with operator[], which checks no bound.  An access past
\* the end is undefined behaviour; the model follows the outcomes a build
\* produces: the process dies on the access (pc = "crashed"), or it goes on,
\* a read yielding some value that is no position of the mesh and a write
\* landing outside the vector.

\* what a read past the end of a vector of positions may yield
Garbage == {Zero, <<7, 1>>}

\* vertList[idx]: the possible results of the read
Reads(vertList, idx) ==
    IF idx < Len(vertList) THEN {vertList[idx + 1]} ELSE Garbage

\* whether the call goes on after its accesses, some of them past the end
\* (bad) or none
Survives(bad) == IF bad THEN {TRUE, FALSE} ELSE {TRUE}

(* --------------------------- getNewVertex ------------------------------ *)
\* the mutant of Interior: the rule of the boundary edges on every edge
InteriorAsBoundary(pa, pb, po1, po2) == PScale(1, 2, PAdd(pa, pb))

\* nvert = (3.f/8.f) * (V1 + V2) + (1.f/8.f) * (oppV1 + oppV2)
Interior(pa, pb, po1, po2) ==
    PAdd(PScale(3, 8, PAdd(pa, pb)), PScale(1, 8, PAdd(po1, po2)))

\* nvert = (V1 + V2) * 0.5f
Boundary(pa, pb) == PScale(1, 2, PAdd(pa, pb))

\* the indices getNewVertex reads vertList through when isBoundaryEdge has
\* answered ans for edge e
ReadThrough(e, ans) ==
    IF ans.boundary THEN {e[1], e[2]}
    ELSE {e[1], e[2], ans.oppV1, ans.oppV2}

\* the possible positions of the new vertex of edge e when isBoundaryEdge has
\* answered ans (one, unless a read is past the end of vertList)
Blend(e, vertList, ans) ==
    IF ~ans.boundary
    THEN {Interior(pa, pb, po1, po2) :
             pa \in Reads(vertList, e[1]), pb \in Reads(vertList, e[2]),
             po1 \in Reads(vertList, ans.oppV1),
             po2 \in Reads(vertList, ans.oppV2)}
    ELSE {Boundary(pa, pb) :
             pa \in Reads(vertList, e[1]), pb \in Reads(vertList, e[2])}

\* the possible positions of the new vertex of edge e
NewVertex(e, vertList, mesh) ==
    UNION {Blend(e, vertList, ans) : ans \in IsBoundaryEdge(e, mesh)}

\* a read of getNewVertex for edge e may be past the end of vertList
ReadsPastEnd(e, vertList, mesh) ==
    \E ans \in IsBoundaryEdge(e, mesh) :
        \E idx \in ReadThrough(e, ans) : idx >= Len(vertList)

\* the mutant of GetNewVertex that looks the edge up as an ordered pair
GetNewVertexOrdered(e, vertList, mesh, newVertList) ==
    IF ~\E j \in 1..Len(newVertList) : newVertList[j].e = e
    THEN {[ret |-> Len(vertList), vertList |-> Append(vertList, p),
           newVertList |-> Add(newVertList, e, Len(vertList)), crashed |-> FALSE] :
             p \in NewVertex(e, vertList, mesh)}
    ELSE {[ret |-> GetIndex(newVertList, e), vertList |-> vertList,
           newVertList |-> newVertList, crashed |-> FALSE]}

\* the mutant of GetNewVertex that takes the new index after the push_back
GetNewVertexLateIndex(e, vertList, mesh, newVertList) ==
    IF ~Contains(newVertList, e)
    THEN {[ret |-> Len(vertList) + 1, vertList |-> Append(vertList, p),
           newVertList |-> Add(newVertList, e, Len(vertList) + 1), crashed |-> FALSE] :
             p \in NewVertex(e, vertList, mesh)}
    ELSE {[ret |-> GetIndex(newVertList, e), vertList |-> vertList,
           newVertList |-> newVertList, crashed |-> FALSE]}

\* getNewVertex(e, vertList, mesh, newVertList): the possible outcomes of the
\* call, each the index returned (ret) and the two lists as the call leaves
\* them; crashed: the process died on a read past the end of vertList, after
\* the edge was added
GetNewVertex(e, vertList, mesh, newVertList) ==
    IF ~Contains(newVertList, e)
    THEN LET newIndex == Len(vertList)
             added    == Add(newVertList, e, newIndex)
             bad      == ReadsPastEnd(e, vertList, mesh)
         IN  {[ret |-> newIndex, vertList |-> Append(vertList, p),
               newVertList |-> added, crashed |-> FALSE] :
                 p \in NewVertex(e, vertList, mesh)}
             \cup
             (IF bad
              THEN {[ret |-> newIndex, vertList |-> vertList,
                     newVertList |-> added, crashed |-> TRUE]}
              ELSE {})
    ELSE {[ret |-> GetIndex(newVertList, e), vertList |-> vertList,
           newVertList |-> newVertList, crashed |-> FALSE]}

(* -------------------------- loopSubdivision ---------------------------- *)
\* the n-th edge handed to getNewVertex for face f: {v1,v2}, {v2,v3}, {v3,v1}
EdgeOf(f, n) ==
    IF n = 1 THEN <<f[1], f[2]>>
    ELSE IF n = 2 THEN <<f[2], f[3]>>
    ELSE <<f[3], f[1]>>

\* the mutant of FourFaces: the last triangle wound the other way
FourFacesFlipped(f, a, b, c) ==
    << <<f[1], a, c>>, <<a, b, c>>, <<c, b, f[3]>>, <<a, b, f[2]>> >>

\* the four triangles of face f with midpoints a, b, c, in push_back order
FourFaces(f, a, b, c) ==
    << <<f[1], a, c>>, <<a, b, c>>, <<c, b, f[3]>>, <<a, f[2], b>> >>

\* the face loop is over: the occurrence list and tmp are created
ToAccumulate ==
    /\ occurrences' = [i \in 1..Len(origVert) |-> 0]
    /\ tmp' = [i \in 1..Len(origVert) |-> Zero]
    /\ k' = 1
    /\ pc' = IF Len(origMesh) > 0 THEN "accumulate"
             ELSE IF Len(origVert) > 0 THEN "reposition" ELSE "normals"

\* the mutant of Begin that leaves the caller's faces in destMesh
BeginNoClear ==
    /\ pc = "start"
    /\ destVert' = origVert
    /\ newVertices' = <<>>
    /\ mids' = <<>>
    /\ IF Len(origMesh) = 0
       THEN ToAccumulate
       ELSE /\ pc' = "faces"
            /\ k' = 1
            /\ UNCHANGED <<occurrences, tmp>>
    /\ UNCHANGED <<origVert, origMesh, destMesh, destNorm>>

\* destVert = origVert; destMesh.clear(); EdgeList newVertices
Begin ==
    /\ pc = "start"
    /\ destVert' = origVert
    /\ destMesh' = <<>>
    /\ newVertices' = <<>>
    /\ mids' = <<>>
    /\ IF Len(origMesh) = 0
       THEN ToAccumulate
       ELSE /\ pc' = "faces"
            /\ k' = 1
            /\ UNCHANGED <<occurrences, tmp>>
    /\ UNCHANGED <<origVert, origMesh, destNorm>>

\* one call of getNewVertex, for the next edge of face k
ResolveEdge ==
    /\ pc = "faces"
    /\ Len(mids) < 3
    /\ \E r \in GetNewVertex(EdgeOf(origMesh[k], Len(mids) + 1),
                             destVert, origMesh, newVertices) :
           /\ destVert' = r.vertList
           /\ newVertices' = r.newVertList
           /\ IF r.crashed
              THEN pc' = "crashed" /\ mids' = mids
              ELSE pc' = pc /\ mids' = Append(mids, r.ret)
    /\ UNCHANGED <<origVert, origMesh, destMesh, destNorm, occurrences, tmp, k>>

\* the four push_back of face k, and the step of the face loop
EmitFaces ==
    /\ pc = "faces"
    /\ Len(mids) = 3
    /\ destMesh' = destMesh \o FourFaces(origMesh[k], mids[1], mids[2], mids[3])
    /\ mids' = <<>>
    /\ IF k = Len(origMesh)
       THEN ToAccumulate
       ELSE /\ k' = k + 1
            /\ pc' = pc
            /\ UNCHANGED <<occurrences, tmp>>
    /\ UNCHANGED <<origVert, origMesh, destVert, destNorm, newVertices>>

\* origVert[idx], g being what a read past the end yields
OrigAt(idx, g) == IF idx < Len(origVert) THEN origVert[idx + 1] ELSE g

\* occurrences[v]++; tmp[v] = tmp[v] + (origVert[o1] + origVert[o2]); with v
\* past the end the two writes land outside the vectors
Bump(acc, v, o1, o2, g) ==
    IF v >= Len(origVert) THEN acc
    ELSE [occ |-> [acc.occ EXCEPT ![v + 1] = @ + 1],
          tmp |-> [acc.tmp EXCEPT ![v + 1] =
                      PAdd(@, PAdd(OrigAt(o1, g), OrigAt(o2, g)))]]

\* the body of the second face loop for face f
Accumulated(f, g) ==
    LET s0 == [occ |-> occurrences, tmp |-> tmp]
        s1 == Bump(s0, f[1], f[2], f[3], g)
        s2 == Bump(s1, f[2], f[1], f[3], g)
    IN  Bump(s2, f[3], f[1], f[2], g)

\* one pass of the second face loop
Accumulate ==
    /\ pc = "accumulate"
    /\ LET f   == origMesh[k]
           bad == \E n \in 1..3 : f[n] >= Len(origVert)
       IN  \E alive \in Survives(bad) :
           \E g \in IF bad /\ alive THEN Garbage ELSE {Zero} :
               IF ~alive
               THEN /\ pc' = "crashed"
                    /\ UNCHANGED <<occurrences, tmp, k>>
               ELSE /\ occurrences' = Accumulated(f, g).occ
                    /\ tmp' = Accumulated(f, g).tmp
                    /\ IF k = Len(origMesh)
                       THEN k' = 1 /\ pc' = "reposition"
                       ELSE k' = k + 1 /\ pc' = pc
    /\ UNCHANGED <<origVert, origMesh, destVert, destMesh, destNorm,
                   newVertices, mids>>

\* the mutant of Repositioned: the neighbours weighted without the count
RepositionedNoCount(i) ==
    PAdd(PScale(5, 8, origVert[i]), PScale(3, 16, tmp[i]))

\* the new position of original vertex i (1-based here):
\* (5/8) * origVert[i] + tmp[i] * (3 / (16 * occurrences[i]))
Repositioned(i) ==
    PAdd(PScale(5, 8, origVert[i]), PScale(3, 16 * occurrences[i], tmp[i]))

\* the mutant of Reposition without the assert: 3 / (16 * 0) is infinite and
\* the position of a vertex that no face holds is not a number
RepositionNoAssert ==
    /\ pc = "reposition"
    /\ destVert' = [destVert EXCEPT ![k] =
                       IF occurrences[k] = 0 THEN <<0, 0>> ELSE Repositioned(k)]
    /\ IF k = Len(origVert)
       THEN k' = 0 /\ pc' = "normals"
       ELSE k' = k + 1 /\ pc' = pc
    /\ UNCHANGED <<origVert, origMesh, destMesh, destNorm, newVertices,
                   occurrences, tmp, mids>>

\* one pass of the loop over the original vertices; the assert stops the pass
Reposition ==
    /\ pc = "reposition"
    /\ IF occurrences[k] = 0
       THEN /\ pc' = "aborted"
            /\ UNCHANGED <<destVert, k>>
       ELSE /\ destVert' = [destVert EXCEPT ![k] = Repositioned(k)]
            /\ IF k = Len(origVert)
               THEN k' = 0 /\ pc' = "normals"
               ELSE k' = k + 1 /\ pc' = pc
    /\ UNCHANGED <<origVert, origMesh, destMesh, destNorm, newVertices,
                   occurrences, tmp, mids>>

\* the number of corners of the faces of mesh at vertex idx: the number of
\* weighted face normals summed into the normal of idx
Corners(mesh, idx) ==
    Cardinality({c \in (1..Len(mesh)) \X (1..3) : mesh[c[1]][c[2]] = idx})

\* destNorm is rebuilt with one normal for each vertex of destVert, the face
\* normals are summed into it and it is normalized.  A normal is modelled by
\* the number of face normals summed into it.
RecomputeNormals ==
    /\ pc = "normals"
    /\ LET bad == \E j \in 1..Len(destMesh) : \E n \in 1..3 :
                      destMesh[j][n] >= Len(destVert)
       IN  \E alive \in Survives(bad) :
               IF ~alive
               THEN /\ pc' = "crashed"
                    /\ destNorm' = [i \in 1..Len(destVert) |-> 0]
               ELSE /\ pc' = "done"
                    /\ destNorm' = [i \in 1..Len(destVert) |->
                                       Corners(destMesh, i - 1)]
    /\ UNCHANGED <<origVert, origMesh, destVert, destMesh, newVertices,
                   occurrences, tmp, k, mids>>

(* --------------------------- specifications ---------------------------- *)
\* the state before the call, for the input mesh (verts, mesh)
Before(verts, mesh) ==
    /\ origVert = verts
    /\ origMesh = mesh
    /\ destVert = StaleVert
    /\ destMesh = StaleMesh
    /\ destNorm = StaleNorm
    /\ newVertices = <<>>
    /\ occurrences = <<>>
    /\ tmp = <<>>
    /\ pc = "start"
    /\ k = 0
    /\ mids = <<>>

\* every face has three distinct indices into the vertices
Init ==
    \E n \in 3..MaxVert, L \in 1..NumLayouts :
        \E mesh \in Meshes(0..(n - 1), MaxFaces) :
            Before(Verts(L, n), mesh)

\* a face may repeat an index, or hold the first index past the vertices
InitMalformed ==
    \E n \in 3..MaxBadVert :
        \E mesh \in SeqsUpTo((0..n) \X (0..n) \X (0..n), MaxBadFaces) :
            Before(Verts(1, n), mesh)

Next ==
    \/ Begin
    \/ ResolveEdge
    \/ EmitFaces
    \/ Accumulate
    \/ Reposition
    \/ RecomputeNormals

Spec == Init /\ [][Next]_vars

SpecMalformed == InitMalformed /\ [][Next]_vars

(* ------------------------- notions of the claims ------------------------ *)
NV == Len(origVert)
NF == Len(origMesh)

\* the undirected edges of face f, each the set of its two ends
EdgesOfFace(f) == {{f[1], f[2]}, {f[2], f[3]}, {f[3], f[1]}}

\* the distinct undirected edges of the input mesh
InputEdges == UNION {EdgesOfFace(origMesh[j]) : j \in 1..NF}

\* the input faces that hold the undirected edge s
FacesOn(s) == {j \in 1..NF : s \subseteq {origMesh[j][1], origMesh[j][2], origMesh[j][3]}}

\* the input faces that hold vertex idx
FacesAt(idx) == {j \in 1..NF : idx \in {origMesh[j][1], origMesh[j][2], origMesh[j][3]}}

\* a valid input mesh: three distinct valid indices in every face, at most two
\* faces on every edge
ValidMesh ==
    /\ \A j \in 1..NF :
          /\ \A n \in 1..3 : origMesh[j][n] \in 0..(NV - 1)
          /\ Cardinality({origMesh[j][1], origMesh[j][2], origMesh[j][3]}) = 3
    /\ \A s \in InputEdges : Cardinality(FacesOn(s)) <= 2

\* the pass has returned
Returned == pc = "done"

\* the first face loop is over
MidpointsDone == pc \in {"accumulate", "reposition", "normals", "done", "aborted"}

\* the sum of the rationals of a finite set of pairs <<tag, rational>>
RECURSIVE SumOf(_)
SumOf(S) ==
    IF S = {} THEN Zero
    ELSE LET x == CHOOSE y \in S : TRUE
         IN  PAdd(x[2], SumOf(S \ {x}))

\* C1: when the pass returns on a valid mesh there are 4 output faces for
\* each input face, one output vertex for each input vertex and each distinct
\* input edge, and one normal for each output vertex.
C1_SizeLaw ==
    (ValidMesh /\ Returned) =>
        /\ Len(destMesh) = 4 * NF
        /\ Len(destVert) = NV + Cardinality(InputEdges)
        /\ Len(destNorm) = Len(destVert)

C1_Witness ==
    /\ Returned
    /\ NF = 2
    /\ Cardinality(InputEdges) = 5

\* the midpoint index face j (already subdivided) uses for its n-th edge,
\* read from its children (v1, a, c) and (a, b, c)
ChildMid(j, n) ==
    IF n = 1 THEN destMesh[4 * j - 3][2]
    ELSE IF n = 2 THEN destMesh[4 * j - 2][2]
    ELSE destMesh[4 * j - 3][3]

\* face j has been subdivided
Subdivided(j) == pc # "start" /\ 4 * j <= Len(destMesh)

\* C2: at every point of a pass every vertex appended is the midpoint of one
\* registered edge, no undirected edge is registered twice, two subdivided
\* faces use the same midpoint index for an edge they share, and once the
\* face loop is over there is exactly one midpoint for each distinct edge.
C2_EdgeDedup ==
    (ValidMesh /\ pc # "start") =>
        /\ Len(destVert) = NV + Len(newVertices)
        /\ \A i, j \in 1..Len(newVertices) :
              i # j => {newVertices[i].e[1], newVertices[i].e[2]}
                         # {newVertices[j].e[1], newVertices[j].e[2]}
        /\ \A j \in 1..NF :
              Subdivided(j) =>
                  \A i \in 1..(j - 1) : \A m, n \in 1..3 :
                      {EdgeOf(origMesh[i], m)[1], EdgeOf(origMesh[i], m)[2]}
                          = {EdgeOf(origMesh[j], n)[1], EdgeOf(origMesh[j], n)[2]}
                        => ChildMid(i, m) = ChildMid(j, n)
        /\ MidpointsDone => Len(newVertices) = Cardinality(InputEdges)

\* two subdivided faces share an edge that they present in opposite orders
C2_Witness ==
    /\ Returned
    /\ \E i, j \in 1..NF : \E m, n \in 1..3 :
          /\ i # j
          /\ EdgeOf(origMesh[i], m)[1] = EdgeOf(origMesh[j], n)[2]
          /\ EdgeOf(origMesh[i], m)[2] = EdgeOf(origMesh[j], n)[1]

\* the index registered for the undirected edge {x, y}
MidOf(x, y) ==
    newVertices[CHOOSE j \in 1..Len(newVertices) :
                   {newVertices[j].e[1], newVertices[j].e[2]} = {x, y}].idx

\* C3: the children of the j-th input face (v1, v2, v3), with a, b, c the
\* midpoints registered for its edges v1v2, v2v3, v3v1, are the output faces
\* 4j-3 .. 4j (1-based) and are (v1, a, c), (a, b, c), (c, b, v3), (a, v2, b)
\* in that order; a face being processed has no child yet and no other face
\* is ever emitted.
C3_FaceSubdivision ==
    pc # "start" =>
        /\ \A j \in 1..NF :
              Subdivided(j) =>
                  LET v1 == origMesh[j][1]
                      v2 == origMesh[j][2]
                      v3 == origMesh[j][3]
                      a  == MidOf(v1, v2)
                      b  == MidOf(v2, v3)
                      c  == MidOf(v3, v1)
                  IN  /\ destMesh[4 * j - 3] = <<v1, a, c>>
                      /\ destMesh[4 * j - 2] = <<a, b, c>>
                      /\ destMesh[4 * j - 1] = <<c, b, v3>>
                      /\ destMesh[4 * j] = <<a, v2, b>>
        /\ pc = "faces" => Len(destMesh) = 4 * (k - 1)
        /\ MidpointsDone => Len(destMesh) = 4 * NF

\* the second of two faces has been subdivided and its three edges have
\* three different midpoints
C3_Witness ==
    /\ Returned
    /\ NF = 2
    /\ Cardinality({ChildMid(2, 1), ChildMid(2, 2), ChildMid(2, 3)}) = 3
    /\ origMesh[1] # origMesh[2]

\* the vertex of input face j that is no end of the undirected edge s
Third(j, s) ==
    CHOOSE v \in {origMesh[j][1], origMesh[j][2], origMesh[j][3]} : v \notin s

\* the sum of the ORIGINAL positions of the vertices of S
OrigSum(S) == SumOf({<<v, origVert[v + 1]>> : v \in S})

\* the sum of the ORIGINAL positions of the vertices opposite the undirected
\* edge s, one for each input face that holds the edge
OppositeSum(s) == SumOf({<<i, origVert[Third(i, s) + 1]>> : i \in FacesOn(s)})

\* C4: on a valid mesh the midpoint registered for an edge {a, b} is, from
\* its creation to the end of the pass, 3/8 (Va + Vb) + 1/8 (VoppA + VoppB)
\* when two input faces hold the edge and 1/2 (Va + Vb) when one does, all
\* V being original positions; and every input edge has its midpoint once
\* the face loop is over.
C4_MidpointFormula ==
    (ValidMesh /\ pc # "start") =>
        /\ \A j \in 1..Len(newVertices) :
              LET s   == {newVertices[j].e[1], newVertices[j].e[2]}
                  pos == destVert[newVertices[j].idx + 1]
              IN  IF Cardinality(FacesOn(s)) = 2
                  THEN pos = PAdd(PScale(3, 8, OrigSum(s)),
                                  PScale(1, 8, OppositeSum(s)))
                  ELSE /\ Cardinality(FacesOn(s)) = 1
                       /\ pos = PScale(1, 2, OrigSum(s))
        /\ MidpointsDone =>
              \A s \in InputEdges : \E j \in 1..Len(newVertices) :
                  s = {newVertices[j].e[1], newVertices[j].e[2]}

\* a returned pass whose mesh has an edge on two faces with two different
\* opposite vertices, and an edge on one face
C4_Witness ==
    /\ Returned
    /\ \E s \in InputEdges :
          /\ Cardinality(FacesOn(s)) = 2
          /\ Cardinality({Third(i, s) : i \in FacesOn(s)}) = 2
    /\ \E s \in InputEdges : Cardinality(FacesOn(s)) = 1

\* original vertex i (1-based) has been given its new position
Moved(i) ==
    \/ pc \in {"normals", "done"}
    \/ pc \in {"reposition", "aborted"} /\ i < k

\* S_i: the sum over the faces that hold vertex i (1-based) of the original
\* positions of the two other vertices of the face
NeighbourSum(i) ==
    SumOf({<<c, origVert[origMesh[c[1]][c[2]] + 1]>> :
              c \in {d \in FacesAt(i - 1) \X (1..3) : origMesh[d[1]][d[2]] # i - 1}})

\* C5: an original vertex i found in n > 0 input faces is moved to
\* 5/8 old_i + 3/(16 n) S_i, whatever the faces around it (boundary or not),
\* and keeps that position to the end of the pass.
C5_Repositioning ==
    ValidMesh =>
        \A i \in 1..NV :
            (Moved(i) /\ FacesAt(i - 1) # {}) =>
                destVert[i] = PAdd(PScale(5, 8, origVert[i]),
                                   PScale(3, 16 * Cardinality(FacesAt(i - 1)),
                                          NeighbourSum(i)))

\* a returned pass with a vertex on one face and a vertex on two faces
C5_Witness ==
    /\ Returned
    /\ \E i \in 1..NV : Cardinality(FacesAt(i - 1)) = 1
    /\ \E i \in 1..NV : Cardinality(FacesAt(i - 1)) = 2

\* the occurrence list is complete: the second face loop is over
Counted == pc \in {"reposition", "normals", "done", "aborted"}

\* the original vertices (1-based) that no input face holds
Unreferenced == {i \in 1..NV : FacesAt(i - 1) = {}}

\* C6 as claimed: when the occurrence check fails, the call has written none
\* of destVert, destMesh and destNorm.
C6_AllOrNothing ==
    pc = "aborted" =>
        /\ destVert = StaleVert
        /\ destMesh = StaleMesh
        /\ destNorm = StaleNorm

\* C7 as claimed: no vertex position is read and no accumulator updated
\* through an index that is not an index of the input vertices: no edge with
\* such an end gets a midpoint, no access past the end of a vector kills the
\* process, and a mesh that holds such an index is never taken through the
\* later loops.
C7_InvalidIndexFailFast ==
    /\ \A j \in 1..Len(newVertices) :
          newVertices[j].e[1] < NV /\ newVertices[j].e[2] < NV
    /\ pc # "crashed"
    /\ (\E j \in 1..NF : \E n \in 1..3 : origMesh[j][n] >= NV) =>
          pc \notin {"accumulate", "reposition", "normals", "done"}

\* C8: once the second face loop is over the occurrence count of every input
\* vertex is the number of input faces that hold it; and a pass over a mesh
\* with a vertex that no face holds never moves that vertex, never gets past
\* it in the loop over the vertices, and never returns.
C8_ZeroOccurrence ==
    /\ Counted => \A i \in 1..NV : occurrences[i] = Cardinality(FacesAt(i - 1))
    /\ \A i \in Unreferenced :
          /\ pc \notin {"normals", "done"}
          /\ pc = "reposition" => k <= i
          /\ pc = "aborted" => k <= i
          /\ pc # "start" => destVert[i] = origVert[i]

\* the pass has stopped at the assert on a vertex that no face holds, after
\* it moved the vertices before it
C8_Witness ==
    /\ pc = "aborted"
    /\ k \in Unreferenced
    /\ k > 1
    /\ NF > 0

\* the undirected edge at position p of the pass: the edges of the faces in
\* the order the first loop hands them to getNewVertex
EdgeAt(p) ==
    LET f == origMesh[((p - 1) \div 3) + 1]
    IN  IF p % 3 = 1 THEN {f[1], f[2]}
        ELSE IF p % 3 = 2 THEN {f[2], f[3]}
        ELSE {f[3], f[1]}

Min(S) == CHOOSE x \in S : \A y \in S : x <= y

\* the position at which the edge of position p is first met
FirstMet(p) == Min({q \in 1..p : EdgeAt(q) = EdgeAt(p)})

\* C10: at every point of a pass on a valid mesh every index of an output
\* face is an index of destVert; the original vertices stay at 0..N-1 and are
\* the originals until the repositioning; the j-th registered edge has index
\* N + j - 1, the size of destVert just before its midpoint was appended, so
\* the midpoints are N..N+E-1 in order of first encounter and no two edges
\* share an index.
C10_IndexLayout ==
    (ValidMesh /\ pc # "start") =>
        /\ \A j \in 1..Len(destMesh) : \A n \in 1..3 :
              destMesh[j][n] \in 0..(Len(destVert) - 1)
        /\ Len(destVert) = NV + Len(newVertices)
        /\ pc \in {"faces", "accumulate"} =>
              \A i \in 1..NV : destVert[i] = origVert[i]
        /\ \A j \in 1..Len(newVertices) : newVertices[j].idx = NV + j - 1
        /\ \A j \in 1..NF : \A n \in 1..3 :
              Subdivided(j) =>
                  ChildMid(j, n) =
                      NV + Cardinality({EdgeAt(q) : q \in 1..(FirstMet(3 * (j - 1) + n) - 1)})
        /\ MidpointsDone => Len(destVert) = NV + Cardinality(InputEdges)

\* in the middle of the first face loop: one face subdivided, the next one
\* being resolved, one of its edges met before and one new
C10_Witness ==
    /\ pc = "faces"
    /\ k = 2
    /\ Len(mids) = 2
    /\ mids[1] < NV + 3
    /\ mids[2] >= NV + 3

====
